---- MODULE Spec2Model ----
(***************************************************************************)
(* Verification model of the Narutalk orchestration core.                  *)
(*                                                                         *)
(* Part A  the six-step workflow graph of backend/agents/graph.py over     *)
(*         GlobalSessionState (backend/agents/state.py).                   *)
(* Part B  the QA graph of langgraph_orchestrator/qa_agent.                *)
(* Part C  the chatbot supervisor graph (guides/supervisor.py,             *)
(*         supervisor/query_processor.py, supervisor/agent_executor.py)    *)
(*         driven by the endpoints of services/chatbot/main.py.            *)
(*                                                                         *)
(* Optional values (Python None / a value) are sequences of length 0 / 1.  *)
(* Scores in [0,1] are integers in hundredths.                             *)
(***************************************************************************)
EXTENDS Integers, Sequences, FiniteSets, TLC

VARIABLES
    wf_pc,        \* node the workflow run is about to execute, or idle/END/raised
    wf_st,        \* channel values of the workflow run (GlobalSessionState)
    wf_ckpt,      \* latest checkpoint of each thread (thread_id = session_id)
    wf_runs,      \* number of runs started by execute_workflow
    wf_loops,     \* times the edge iteration -> planning was taken in this run
    wf_err,       \* why the run raised, "" when it did not
    rt,           \* a session state handed to the routers and the labels they returned
    qa_pc,        \* node the QA graph is about to execute, or idle/END/raised
    qa_st,        \* state of the QA graph run
    qa_failed,    \* nodes of the QA run whose body failed
    qa_result,    \* what run_agent returned, None while it has not
    sup_impl,     \* node implementations of the supervisor graph
    sup_env,      \* the clients of the server: how many, and what they request
    sup_run,      \* the supervisor graph runs the server is executing
    sup_store,    \* checkpoints of each thread of the supervisor graph
    sup_last,     \* the request that halted last, None before the first
    sup_requests, \* number of requests the server has accepted
    ph,           \* a session state handed to determine_next_phase and its result
    rd,           \* reduced channels, a partial update, and how often it was merged
    aw,           \* an append-bounded field and all entries appended to it so far
    md,           \* the dict objects of a call of merge_dicts
    rc,           \* a state handed to a router twice, and the labels it returned
    pn,           \* a list of suggested agents and the plan Planner.create_plan built for it
    sg,           \* the run of the graph of create_supervisor_graph
    cm            \* the websockets and ConnectionManager.active_connections

wf_vars == <<wf_pc, wf_st, wf_ckpt, wf_runs, wf_loops, wf_err>>

qa_vars == <<qa_pc, qa_st, qa_failed, qa_result>>

sup_vars == <<sup_impl, sup_env, sup_run, sup_store, sup_last, sup_requests>>

pure_vars == <<ph, rd, aw, md>>

ext_vars == <<rc, pn, sg, cm>>

vars == <<wf_vars, rt, qa_vars, sup_vars, pure_vars, ext_vars>>

\* the variables of the other parts, which an action of one part leaves alone
non_wf_vars == <<rt, qa_vars, sup_vars, pure_vars, ext_vars>>

non_rt_vars == <<wf_vars, qa_vars, sup_vars, pure_vars, ext_vars>>

non_qa_vars == <<wf_vars, rt, sup_vars, pure_vars, ext_vars>>

non_sup_vars == <<wf_vars, rt, qa_vars, pure_vars, ext_vars>>

non_pure_vars == <<wf_vars, rt, qa_vars, sup_vars, ext_vars>>

non_ext_vars == <<wf_vars, rt, qa_vars, sup_vars, pure_vars>>

None == <<>>

Some(x) == <<x>>

----------------------------------------------------------------------------
(* Bounds of the model *)

MaxRuns == 2

(* Inputs *)

Sessions == {"s1", "s2"}

Users == {"u1", "u2"}

Companies == {"c1"}

KnownAgents ==
    {"DataAnalysisAgent", "InformationRetrievalAgent", "DocumentGenerationAgent",
     "ComplianceValidationAgent", "StorageDecisionAgent"}

\* results of IntentAnalyzer.analyze_intent the model draws from
AnalyzerOutcomes ==
    {[clarification_needed |-> TRUE, suggested_agents |-> <<>>],
     [clarification_needed |-> FALSE,
      suggested_agents |-> <<"InformationRetrievalAgent", "DocumentGenerationAgent">>]}

\* results of the execution manager the model draws from
ExecutionOutcomes ==
    {[pending_tasks |-> <<>>, execution_status |-> "completed", need_replan |-> FALSE],
     [pending_tasks |-> <<[agent |-> "DataAnalysisAgent"]>>,
      execution_status |-> "running", need_replan |-> FALSE],
     [pending_tasks |-> <<>>, execution_status |-> "failed", need_replan |-> TRUE]}

Scores == {50, 90}

----------------------------------------------------------------------------
(* Part A: GlobalSessionState and its reducers *)

Min(a, b) == IF a < b THEN a ELSE b

LastN(s, n) ==
    IF Len(s) > n THEN SubSeq(s, Len(s) - n + 1, Len(s)) ELSE s

AuditTrailLimit == 200

ConversationHistoryLimit == 50

ExecutionStepsLimit == 100

\* a dict value: a number or a value of another type, tagged so that
\* isinstance(value, (int, float)) can be tested
Num(n) == <<"num", n>>

Other(x) == <<"other", x>>

IsNum(value) == value[1] = "num"

\* a dict is a function from its keys
EmptyDict == [k \in {} |-> Num(0)]

\* the reducer with `result[key] = value` on every key of update
merge_dicts_overwrites(current, update) ==
    [key \in DOMAIN current \cup DOMAIN update |->
        IF key \notin DOMAIN update THEN current[key] ELSE update[key]]

merge_dicts(current, update) ==
    [key \in DOMAIN current \cup DOMAIN update |->
        IF key \notin DOMAIN update THEN current[key]
        ELSE IF key \in DOMAIN current /\ IsNum(current[key]) /\ IsNum(update[key])
             THEN Num(current[key][2] + update[key][2])
        ELSE update[key]]

\* the reducer with the cap applied at the wrong end: the oldest entries stay
append_with_limit_keeps_oldest(limit, current, update) ==
    LET combined == current \o update
    IN IF Len(combined) > limit THEN SubSeq(combined, 1, limit) ELSE combined

append_with_limit(limit, current, update) ==
    LET combined == current \o update
    IN IF Len(combined) > limit THEN LastN(combined, limit) ELSE combined

SumFields == {"iteration_count", "total_tokens_used", "db_queries_executed"}

ConcatFields == {"errors", "warnings"}

Reduce(field, current, update) ==
    IF field \in SumFields THEN current + update
    ELSE IF field \in ConcatFields THEN current \o update
    ELSE IF field = "audit_trail" THEN append_with_limit(AuditTrailLimit, current, update)
    ELSE IF field = "conversation_history"
         THEN append_with_limit(ConversationHistoryLimit, current, update)
    ELSE IF field = "execution_steps"
         THEN append_with_limit(ExecutionStepsLimit, current, update)
    ELSE IF field = "api_calls_made" THEN merge_dicts(current, update)
    ELSE update

GlobalSessionState ==
    [k \in {"session_id", "user_id", "company_id", "current_phase",
            "iteration_count", "total_tokens_used", "db_queries_executed",
            "query_analyzer_state", "planning_state", "execution_manager_state",
            "iteration_state", "errors", "warnings", "audit_trail"} |->
        IF k \in SumFields THEN 0
        ELSE IF k \in {"session_id", "user_id", "company_id", "current_phase"} THEN ""
        ELSE <<>>]

Merge(st, upd) ==
    [k \in DOMAIN st |->
        IF k \in DOMAIN upd THEN Reduce(k, st[k], upd[k]) ELSE st[k]]

initialize_global_state(session_id, user_id, company_id) ==
    [session_id |-> session_id,
     user_id |-> user_id,
     company_id |-> company_id,
     current_phase |-> "analyzing",
     iteration_count |-> 0,
     total_tokens_used |-> 0,
     db_queries_executed |-> 0,
     query_analyzer_state |-> None,
     planning_state |-> None,
     execution_manager_state |-> None,
     errors |-> <<>>,
     warnings |-> <<>>,
     audit_trail |-> <<>>]

determine_next_phase(state) ==
    LET current == state.current_phase
        qa == state.query_analyzer_state
        pl == state.planning_state
        em == state.execution_manager_state
    IN IF current = "analyzing" THEN
           IF qa # None /\ qa[1].clarification_needed THEN "clarifying" ELSE "planning"
       ELSE IF current = "planning" THEN
           IF pl # None /\ pl[1].execution_plan = <<>> THEN "analyzing" ELSE "executing"
       ELSE IF current = "executing" THEN
           IF em # None /\ em[1].need_replan THEN "planning"
           ELSE IF em # None /\ em[1].execution_status = "completed" THEN "completed"
           ELSE "executing"
       ELSE "completed"

----------------------------------------------------------------------------
(* Part A: Planner.create_plan *)

base_dependencies(agent) ==
    CASE agent = "DocumentGenerationAgent" ->
             <<"DataAnalysisAgent", "InformationRetrievalAgent">>
      [] agent = "ComplianceValidationAgent" -> <<"DocumentGenerationAgent">>
      [] agent = "StorageDecisionAgent" ->
             <<"DataAnalysisAgent", "DocumentGenerationAgent">>
      [] OTHER -> <<>>

SeqToSet(s) == {s[i] : i \in DOMAIN s}

IsIn(x, s) == x \in SeqToSet(s)

RECURSIVE Dedup(_)
Dedup(s) ==
    IF s = <<>> THEN <<>>
    ELSE LET front == Dedup(SubSeq(s, 1, Len(s) - 1))
             last == s[Len(s)]
         IN IF IsIn(last, front) THEN front ELSE Append(front, last)

\* the dict agent -> dependencies; its key order is Dedup(agents)
_build_dependency_graph(agents) ==
    [a \in SeqToSet(agents) |->
        SelectSeq(base_dependencies(a), LAMBDA d : IsIn(d, agents))]

RECURSIVE RelaxNeighbors(_, _, _)
RelaxNeighbors(neighbors, in_degree, queue) ==
    IF neighbors = <<>> THEN [in_degree |-> in_degree, queue |-> queue]
    ELSE LET n == Head(neighbors)
             deg == [in_degree EXCEPT ![n] = @ - 1]
         IN RelaxNeighbors(Tail(neighbors), deg,
                           IF deg[n] = 0 THEN Append(queue, n) ELSE queue)

RECURSIVE TopoLoop(_, _, _, _)
TopoLoop(graph, in_degree, queue, result) ==
    IF queue = <<>> THEN result
    ELSE LET node == Head(queue)
             r == RelaxNeighbors(graph[node], in_degree, Tail(queue))
         IN TopoLoop(graph, r.in_degree, r.queue, Append(result, node))

_topological_sort(keys, graph) ==
    LET in_degree ==
            [n \in DOMAIN graph |->
                Cardinality({<<m, i>> \in (DOMAIN graph) \X (1..2) :
                                i \in DOMAIN graph[m] /\ graph[m][i] = n})]
        queue == SelectSeq(keys, LAMBDA n : in_degree[n] = 0)
    IN TopoLoop(graph, in_degree, queue, <<>>)

RECURSIVE GroupLoop(_, _, _, _, _)
GroupLoop(execution_order, i, processed, graph, groups) ==
    IF i > Len(execution_order) THEN groups
    ELSE LET agent == execution_order[i]
         IN IF agent \in processed
            THEN GroupLoop(execution_order, i + 1, processed, graph, groups)
            ELSE LET others ==
                         SelectSeq(execution_order,
                             LAMBDA o : /\ o \notin processed \cup {agent}
                                        /\ ~IsIn(o, graph[agent])
                                        /\ ~IsIn(agent, graph[o])
                                        /\ graph[agent] = graph[o])
                     group == <<agent>> \o others
                 IN GroupLoop(execution_order, i + 1,
                              processed \cup SeqToSet(group), graph,
                              Append(groups, group))

_identify_parallel_opportunities(execution_order, graph) ==
    GroupLoop(execution_order, 1, {}, graph, <<>>)

_get_step_dependencies(idx) == [i \in 1..idx |-> i]

\* idx is 0-based in the source; step ids and dependencies are the numbers k of "step_k"
_create_execution_plan(parallel_groups) ==
    [k \in 1..Len(parallel_groups) |->
        [step_id |-> k,
         agents |-> parallel_groups[k],
         parallel |-> Len(parallel_groups[k]) > 1,
         dependencies |-> _get_step_dependencies(k - 1)]]

Planner_create_plan(analyzer_state) ==
    LET agents == analyzer_state.suggested_agents
        graph == _build_dependency_graph(agents)
        execution_order == _topological_sort(Dedup(agents), graph)
        parallel_groups == _identify_parallel_opportunities(execution_order, graph)
    IN [execution_plan |-> _create_execution_plan(parallel_groups),
        priority_order |-> execution_order,
        parallel_opportunities |-> parallel_groups]

----------------------------------------------------------------------------
(* Part A: the six-step workflow graph *)

DefaultMaxIterations == 3

quality_threshold == 80

agent_mapping(agent_name) ==
    CASE agent_name = "DataAnalysisAgent" -> Some("data_analysis")
      [] agent_name = "InformationRetrievalAgent" -> Some("info_retrieval")
      [] agent_name = "DocumentGenerationAgent" -> Some("doc_generation")
      [] agent_name = "ComplianceValidationAgent" -> Some("compliance")
      [] agent_name = "StorageDecisionAgent" -> Some("storage")
      [] OTHER -> None

_route_to_workers(state) ==
    LET es == state.execution_manager_state
    IN IF es = None THEN "error"
       ELSE LET pending_tasks == es[1].pending_tasks
                node_name == IF pending_tasks # <<>>
                             THEN agent_mapping(pending_tasks[1].agent)
                             ELSE None
            IN IF node_name # None THEN node_name[1]
               ELSE IF es[1].execution_status = "completed" THEN "evaluation"
               ELSE "error"

_check_iteration_retry_first(state) ==
    LET iteration_state == state.iteration_state
    IN IF iteration_state = None THEN "complete"
       ELSE IF iteration_state[1].need_retry THEN "retry"
       ELSE IF state.iteration_count >= DefaultMaxIterations THEN "complete"
       ELSE IF iteration_state[1].quality_score < quality_threshold THEN "retry"
       ELSE "complete"

_check_iteration(state) ==
    LET iteration_state == state.iteration_state
    IN IF iteration_state = None THEN "complete"
       ELSE IF state.iteration_count >= DefaultMaxIterations THEN "complete"
       ELSE IF iteration_state[1].need_retry THEN "retry"
       ELSE IF iteration_state[1].quality_score < quality_threshold THEN "retry"
       ELSE "complete"

\* the label maps given to add_conditional_edges in build_graph
ExecutionEdges == [evaluation |-> "evaluation", error |-> "END"]

IterationEdges == [retry |-> "planning", complete |-> "END"]

\* what the node's caller receives when the node returns the state it was given:
\* every channel is written with its own current value
WholeStateUpdate(state) == state

\* execute_workflow: a new run on the session's thread; the input is written to
\* the channels through their reducers
execute_workflow ==
    /\ wf_pc \in {"idle", "END", "raised"}
    /\ wf_runs < MaxRuns
    /\ \E session_id \in Sessions, user_id \in Users, company_id \in Companies :
          LET initial_state == initialize_global_state(session_id, user_id, company_id)
              base == IF wf_ckpt[session_id] = None THEN GlobalSessionState
                      ELSE wf_ckpt[session_id][1]
              st == Merge(base, initial_state)
          IN /\ wf_st' = st
             /\ wf_ckpt' = [wf_ckpt EXCEPT ![session_id] = Some(st)]
    /\ wf_pc' = "intent_analysis"
    /\ wf_runs' = wf_runs + 1
    /\ wf_loops' = 0
    /\ wf_err' = ""
    /\ UNCHANGED non_wf_vars

\* a node raised: ainvoke raises, execute() logs and re-raises
NodeRaises(node) ==
    /\ wf_pc = node
    /\ wf_pc' = "raised"
    /\ wf_err' = "node_exception"
    /\ UNCHANGED <<wf_st, wf_ckpt, wf_runs, wf_loops>>
    /\ UNCHANGED non_wf_vars

Advance(st, next) ==
    /\ wf_st' = st
    /\ wf_ckpt' = [wf_ckpt EXCEPT ![st.session_id] = Some(st)]
    /\ wf_pc' = next
    /\ UNCHANGED wf_runs

\* follow a conditional edge; a label outside the map is a KeyError of the run
Route(st, label, edges) ==
    IF label \in DOMAIN edges
    THEN /\ Advance(st, edges[label])
         /\ wf_err' = ""
    ELSE /\ wf_st' = st
         /\ wf_ckpt' = [wf_ckpt EXCEPT ![st.session_id] = Some(st)]
         /\ wf_pc' = "raised"
         /\ wf_err' = "undeclared_label"
         /\ UNCHANGED wf_runs

\* intent_analyzer_node mutates the state it was given and returns all of it, so
\* every channel is written with its own value.  The node's state holds the
\* channels' own list objects: the entry appended in place is already part of
\* the channel's audit_trail when the returned list is reduced into it.
intent_analyzer_node ==
    /\ wf_pc = "intent_analysis"
    /\ \E analyzer_state \in AnalyzerOutcomes :
          LET entry == "intent_analyzer"
              state == [wf_st EXCEPT !.query_analyzer_state = Some(analyzer_state),
                                     !.current_phase = "planning",
                                     !.audit_trail = Append(@, entry)]
              channels == [wf_st EXCEPT !.audit_trail = Append(@, entry)]
          IN Advance(Merge(channels, WholeStateUpdate(state)), "planning")
    /\ UNCHANGED <<wf_loops, wf_err>>
    /\ UNCHANGED non_wf_vars

intent_analyzer_raises ==
    /\ NodeRaises("intent_analysis")

planner_node ==
    /\ wf_pc = "planning"
    /\ LET analyzer_state == wf_st.query_analyzer_state
       IN IF analyzer_state = None
          THEN Advance(Merge(wf_st, WholeStateUpdate(wf_st)), "agent_selection")
          ELSE LET planning_state == Planner_create_plan(analyzer_state[1])
                   upd == [planning_state |-> Some(planning_state),
                           current_phase |-> "agent_selection",
                           audit_trail |-> <<"planner">>]
               IN Advance(Merge(wf_st, upd), "agent_selection")
    /\ UNCHANGED <<wf_loops, wf_err>>
    /\ UNCHANGED non_wf_vars

agent_selector_node ==
    /\ wf_pc = "agent_selection"
    /\ Advance(Merge(wf_st, [current_phase |-> "executing"]), "execution")
    /\ UNCHANGED <<wf_loops, wf_err>>
    /\ UNCHANGED non_wf_vars

execution_manager_node ==
    /\ wf_pc = "execution"
    /\ \E es \in ExecutionOutcomes :
          LET st == Merge(wf_st, [execution_manager_state |-> Some(es)])
          IN Route(st, _route_to_workers(st), ExecutionEdges)
    /\ UNCHANGED wf_loops
    /\ UNCHANGED non_wf_vars

evaluator_node ==
    /\ wf_pc = "evaluation"
    /\ \E need_retry \in BOOLEAN, quality_score \in Scores :
          LET it == [need_retry |-> need_retry, quality_score |-> quality_score]
          IN Advance(Merge(wf_st, [iteration_state |-> Some(it)]), "iteration")
    /\ UNCHANGED <<wf_loops, wf_err>>
    /\ UNCHANGED non_wf_vars

iteration_controller_node ==
    /\ wf_pc = "iteration"
    /\ LET counted == Merge(wf_st, [iteration_count |-> 1])
           label == _check_iteration(counted)
           st == Merge(counted, [current_phase |->
                                    IF label = "retry" THEN "planning" ELSE "completed"])
       IN /\ Route(st, label, IterationEdges)
          /\ wf_loops' = IF label = "retry" THEN wf_loops + 1 ELSE wf_loops
    /\ UNCHANGED non_wf_vars

WfInit ==
    /\ wf_pc = "idle"
    /\ wf_st = GlobalSessionState
    /\ wf_ckpt = [s \in Sessions |-> None]
    /\ wf_runs = 0
    /\ wf_loops = 0
    /\ wf_err = ""

WfNext ==
    \/ execute_workflow
    \/ intent_analyzer_node
    \/ intent_analyzer_raises
    \/ planner_node
    \/ agent_selector_node
    \/ execution_manager_node
    \/ evaluator_node
    \/ iteration_controller_node

----------------------------------------------------------------------------
(* Part A: the routers as functions of an arbitrary session state *)

RouterExecutionStates ==
    {None} \cup
    {Some([pending_tasks |-> p, execution_status |-> e, need_replan |-> FALSE]) :
        p \in {<<>>, <<[agent |-> "DataAnalysisAgent"]>>,
               <<[agent |-> "StorageDecisionAgent"]>>, <<[agent |-> "UnknownAgent"]>>},
        e \in {"initializing", "running", "paused", "completed", "failed"}}

RouterIterationStates ==
    {None} \cup
    {Some([need_retry |-> r, quality_score |-> q]) : r \in BOOLEAN, q \in {50, 80, 90}}

MaxCount == 4

RouterStates ==
    {[GlobalSessionState EXCEPT !.execution_manager_state = es,
                                !.iteration_state = it,
                                !.iteration_count = c] :
        es \in RouterExecutionStates, it \in RouterIterationStates, c \in 0..MaxCount}

RtIdle ==
    rt = [state |-> GlobalSessionState, execution |-> "", iteration |-> ""]

RtInit ==
    rt \in {[state |-> st, execution |-> "", iteration |-> ""] : st \in RouterStates}

route_execution ==
    /\ rt.execution = ""
    /\ rt' = [rt EXCEPT !.execution = _route_to_workers(rt.state)]
    /\ UNCHANGED non_rt_vars

route_iteration ==
    /\ rt.iteration = ""
    /\ rt' = [rt EXCEPT !.iteration = _check_iteration(rt.state)]
    /\ UNCHANGED non_rt_vars

RtNext ==
    \/ route_execution
    \/ route_iteration

----------------------------------------------------------------------------
(* Part B: the QA graph (qa_agent/agent.py, qa_agent/utils/nodes.py) *)

Queries == {"", "q"}

\* the "confidence" member of the model's JSON answer: a number, missing, or null
LlmConfidences == {Some(50), Some(95), None}

QaInitialState(query, user_id) ==
    [user_query |-> query,
     user_id |-> user_id,
     intent |-> None,
     search_results |-> 0,
     enhanced_context |-> None,
     final_response |-> None,
     confidence_score |-> None,
     step |-> "",
     messages |-> 1,
     error |-> ""]

should_continue(state) ==
    IF state.error # "" THEN "end"
    ELSE IF state.search_results = 0 THEN "generate_response"
    ELSE "continue"

\* confidence_score < 0.7 is a TypeError when the score is None
needs_validation(state) ==
    IF state.confidence_score = None THEN "TypeError"
    ELSE IF state.confidence_score[1] < 70 THEN "validate"
    ELSE "format"

SearchEdges ==
    [continue |-> "enhance_context", generate_response |-> "generate_response",
     end |-> "END"]

ValidationEdges == [validate |-> "validate_response", format |-> "format_output"]

run_agent ==
    /\ qa_pc = "idle" \/ qa_result # None
    /\ \E query \in Queries, user_id \in Users : qa_st' = QaInitialState(query, user_id)
    /\ qa_pc' = "extract_query"
    /\ qa_failed' = {}
    /\ qa_result' = None
    /\ UNCHANGED non_qa_vars

extract_user_query ==
    /\ qa_pc = "extract_query"
    /\ qa_st' = [qa_st EXCEPT !.step = "query_extracted"]
    /\ qa_pc' = "classify_intent"
    /\ UNCHANGED <<qa_failed, qa_result>>
    /\ UNCHANGED non_qa_vars

classify_intent ==
    /\ qa_pc = "classify_intent"
    /\ IF qa_st.user_query = ""
       THEN /\ qa_st' = [qa_st EXCEPT !.error = "no query to classify"]
            /\ UNCHANGED qa_failed
       ELSE \/ \E confidence \in {50, 90} :
                  /\ qa_st' = [qa_st EXCEPT !.intent = Some([confidence |-> confidence]),
                                            !.step = "intent_classified"]
                  /\ UNCHANGED qa_failed
            \/ /\ qa_st' = [qa_st EXCEPT !.error = "intent classification failed",
                                         !.intent = Some([confidence |-> 0])]
               /\ qa_failed' = qa_failed \cup {"classify_intent"}
    /\ qa_pc' = "search_documents"
    /\ UNCHANGED qa_result
    /\ UNCHANGED non_qa_vars

search_documents ==
    /\ qa_pc = "search_documents"
    /\ \E st \in
          IF qa_st.user_query = ""
          THEN {[qa_st EXCEPT !.error = "no query to search"]}
          ELSE {[qa_st EXCEPT !.search_results = n, !.step = "documents_searched"] :
                    n \in 0..2} :
          /\ qa_st' = st
          /\ qa_pc' = SearchEdges[should_continue(st)]
    /\ UNCHANGED <<qa_failed, qa_result>>
    /\ UNCHANGED non_qa_vars

\* get_medical_industry_context.invoke() is called without its input argument:
\* the call raises and the node's handler records the error
enhance_context ==
    /\ qa_pc = "enhance_context"
    /\ IF qa_st.search_results = 0
       THEN /\ qa_st' = [qa_st EXCEPT !.enhanced_context = Some("no documents")]
            /\ UNCHANGED qa_failed
       ELSE /\ qa_st' = [qa_st EXCEPT !.error = "context enhancement failed",
                                      !.enhanced_context = Some("default")]
            /\ qa_failed' = qa_failed \cup {"enhance_context"}
    /\ qa_pc' = "generate_response"
    /\ UNCHANGED qa_result
    /\ UNCHANGED non_qa_vars

QaRoute(st) ==
    LET label == needs_validation(st)
    IN IF label \in DOMAIN ValidationEdges
       THEN /\ qa_pc' = ValidationEdges[label]
            /\ UNCHANGED qa_result
       ELSE /\ qa_pc' = "raised"
            /\ qa_result' = Some([success |-> FALSE, error |-> label])

generate_response ==
    /\ qa_pc = "generate_response"
    /\ \/ \E confidence \in LlmConfidences :
            LET st == [qa_st EXCEPT !.final_response = Some([answer |-> "a"]),
                                    !.confidence_score = confidence,
                                    !.step = "response_generated"]
            IN /\ qa_st' = st
               /\ QaRoute(st)
               /\ UNCHANGED qa_failed
       \/ LET st == [qa_st EXCEPT !.error = "response generation failed",
                                  !.final_response = Some([answer |-> "sorry"]),
                                  !.confidence_score = Some(0)]
          IN /\ qa_st' = st
             /\ QaRoute(st)
             /\ qa_failed' = qa_failed \cup {"generate_response"}
    /\ UNCHANGED non_qa_vars

validate_response ==
    /\ qa_pc = "validate_response"
    /\ qa_st' = [qa_st EXCEPT !.step = "response_validated"]
    /\ qa_pc' = "format_output"
    /\ UNCHANGED <<qa_failed, qa_result>>
    /\ UNCHANGED non_qa_vars

format_final_output ==
    /\ qa_pc = "format_output"
    /\ qa_st' = [qa_st EXCEPT !.messages = @ + 1, !.step = "output_formatted"]
    /\ qa_pc' = "END"
    /\ UNCHANGED <<qa_failed, qa_result>>
    /\ UNCHANGED non_qa_vars

\* app.invoke returned: run_agent builds its result from the final state
run_agent_returns ==
    /\ qa_pc = "END"
    /\ qa_result = None
    /\ qa_result' = Some([success |-> TRUE, error |-> ""])
    /\ UNCHANGED <<qa_pc, qa_st, qa_failed>>
    /\ UNCHANGED non_qa_vars

QaInit ==
    /\ qa_pc = "idle"
    /\ qa_st = QaInitialState("", "u1")
    /\ qa_failed = {}
    /\ qa_result = None

QaNext ==
    \/ run_agent
    \/ extract_user_query
    \/ classify_intent
    \/ search_documents
    \/ enhance_context
    \/ generate_response
    \/ validate_response
    \/ format_final_output
    \/ run_agent_returns

----------------------------------------------------------------------------
(* Part C: the chatbot supervisor graph.                                   *)
(* sup_impl selects the node implementations the graph was built from:     *)
(* "guide" the methods of SupervisorAgent (guides/supervisor.py),          *)
(* "modular" QueryProcessor, AgentExecutor and SupervisorUtils.            *)

Runs == {1, 2}

\* requests of one client after the other
MaxRequests == 3

\* requests of clients that do not wait for each other
MaxConcurrentRequests == 2

\* requests of the clients of the checkpoint store
MaxStoreRequests == 3

\* supersteps a run may take (recursion_limit of the run's config)
RecursionLimit == 25

RequiredAgentLists ==
    {<<"search">>, <<"search", "customer">>, <<"analysis", "document">>}

\* AgentContext as the requests of the model set it (context_override)
Contexts ==
    {[interrupt_mode |-> "critical", parallel_execution |-> TRUE],
     [interrupt_mode |-> "all", parallel_execution |-> TRUE],
     [interrupt_mode |-> "all", parallel_execution |-> FALSE],
     [interrupt_mode |-> "none", parallel_execution |-> FALSE]}

\* the value of a resume request: JSON true, false, or absent (None)
ResumeValues == {"true", "false", "null"}

\* InterruptResponse.action: the approval and the rejection of a request
ResumeActions == {"approve", "reject"}

Truthy(value) == value = "true"

create_initial_state ==
    [query_analysis |-> None,
     execution_plan |-> <<>>,
     agent_sequence |-> <<>>,
     current_agent |-> "supervisor",
     workflow_status |-> "initializing",
     interrupt_data |-> None,
     final_response |-> None,
     errors |-> <<>>]

\* a partial update: the keys of upd replace the state's (no reducer on them)
SupMerge(st, upd) ==
    [k \in DOMAIN st |-> IF k \in DOMAIN upd THEN upd[k] ELSE st[k]]

StepId(k) ==
    CASE k = 1 -> "step_1" [] k = 2 -> "step_2" [] k = 3 -> "step_3"
      [] OTHER -> "step_n"

\* the action texts hold none of the approval keywords; "generic" is the
\* text of the fallback entry
get_agent_action(agent_name) ==
    IF agent_name \in {"analysis", "search", "document", "customer"}
    THEN agent_name ELSE "generic"

can_run_parallel(agent) == agent \in {"search", "customer"}

approval_actions == {"sql_execution", "document_generation", "external_api_call"}

\* any(a in action.lower() for a in approval_actions): no action text of
\* get_agent_action contains one of the keywords
ActionHasApprovalKeyword(action) == action \in approval_actions

\* the actions AgentContext.approval_required maps to True by default
approval_required == {"sql_execution", "external_api_call", "data_modification"}

\* AgentContext.should_interrupt
should_interrupt(context, action) ==
    IF context.interrupt_mode = "none" THEN FALSE
    ELSE IF context.interrupt_mode = "all" THEN TRUE
    ELSE action \in approval_required

\* SupervisorUtils.requires_approval
requires_approval(action, context) ==
    IF context.interrupt_mode = "none" THEN FALSE
    ELSE IF context.interrupt_mode = "all" THEN TRUE
    ELSE ActionHasApprovalKeyword(action)

\* SupervisorAgent._requires_approval
_requires_approval(action, context) == ActionHasApprovalKeyword(action)

RequiresApproval(impl, action, context) ==
    IF impl = "modular" THEN requires_approval(action, context)
    ELSE _requires_approval(action, context)

_build_execution_plan(required_agents) ==
    [k \in 1..Len(required_agents) |->
        [step_id |-> StepId(k),
         agent_name |-> required_agents[k],
         action |-> get_agent_action(required_agents[k]),
         dependencies |-> IF k = 1 THEN <<>> ELSE <<StepId(k - 1)>>,
         parallel |-> can_run_parallel(required_agents[k])]]

\* the approval loop of create_plan: `resumes` are the values already given to
\* the interrupt() calls of this execution of the node, in order; a call beyond them suspends
RECURSIVE _handle_interrupts(_, _, _, _, _)
_handle_interrupts(impl, plan, context, resumes, i) ==
    IF i > Len(plan) THEN "approved"
    ELSE IF ~RequiresApproval(impl, plan[i].action, context)
         THEN _handle_interrupts(impl, plan, context, resumes, i + 1)
    ELSE IF resumes = <<>> THEN "suspend"
    ELSE IF ~Truthy(Head(resumes)) THEN "declined"
    ELSE _handle_interrupts(impl, plan, context, Tail(resumes), i + 1)

\* create_plan: the outcome of the node and the update it returns
create_plan(impl, state, ctx, resumes) ==
    IF ctx = None THEN [kind |-> "raise", upd |-> <<>>]
    ELSE LET context == ctx[1]
             required_agents == IF state.query_analysis = None THEN <<"search">>
                                ELSE state.query_analysis[1]
             plan == _build_execution_plan(required_agents)
             approval == IF context.interrupt_mode # "none"
                         THEN _handle_interrupts(impl, plan, context, resumes, 1)
                         ELSE "approved"
         IN IF approval = "suspend" THEN [kind |-> "suspend", upd |-> <<>>]
            ELSE IF approval = "declined"
            THEN [kind |-> "update",
                  upd |-> [workflow_status |-> "interrupted",
                           interrupt_data |-> Some("User declined action")]]
            ELSE [kind |-> "update",
                  upd |-> [execution_plan |-> plan, workflow_status |-> "executing"]]

_get_next_step(plan, state) ==
    LET executed == state.agent_sequence
        ready == {k \in DOMAIN plan :
                    /\ ~IsIn(plan[k].agent_name, executed)
                    /\ \A i \in DOMAIN plan[k].dependencies :
                          IsIn(plan[k].dependencies[i], executed)}
    IN IF ready = {} THEN None
       ELSE Some(plan[CHOOSE k \in ready : \A j \in ready : k <= j])

_get_parallel_agents(plan, current_step, state) ==
    SelectSeq(plan, LAMBDA step : /\ step # current_step
                                  /\ step.parallel
                                  /\ ~IsIn(step.agent_name, state.agent_sequence))

\* SupervisorAgent._get_parallel_agents reads `state`, which is not one of its
\* parameters: the read is reached, and is a NameError, for the first step
\* that is another step and parallel
GuideParallelRaises(plan, current_step) ==
    \E k \in DOMAIN plan : plan[k] # current_step /\ plan[k].parallel

AgentNames(steps) == [i \in DOMAIN steps |-> steps[i].agent_name]

\* the agents a Send is created for
_create_sends(agent_name, parallel_agents) ==
    IF parallel_agents # <<>> THEN AgentNames(parallel_agents) ELSE <<agent_name>>

\* route_agents: the outcome of the node and the update it returns
route_agents(impl, state, ctx) ==
    LET plan == state.execution_plan
        current_step == _get_next_step(plan, state)
    IN IF current_step = None
       THEN [kind |-> "update", upd |-> [workflow_status |-> "completed"],
             sends |-> <<>>]
       ELSE IF ctx = None THEN [kind |-> "raise", upd |-> <<>>, sends |-> <<>>]
       ELSE LET agent_name == current_step[1].agent_name
                wants_parallel == ctx[1].parallel_execution /\ current_step[1].parallel
            IN IF wants_parallel /\ impl = "guide"
                  /\ GuideParallelRaises(plan, current_step[1])
               THEN [kind |-> "raise", upd |-> <<>>, sends |-> <<>>]
               ELSE LET parallel_agents ==
                            IF wants_parallel
                            THEN _get_parallel_agents(plan, current_step[1], state)
                            ELSE <<>>
                        executed_agents == <<agent_name>> \o AgentNames(parallel_agents)
                    IN [kind |-> "update",
                        upd |-> [current_agent |-> agent_name,
                                 agent_sequence |-> state.agent_sequence \o executed_agents],
                        sends |-> _create_sends(agent_name, parallel_agents)]

check_completion(state) ==
    IF state.errors # <<>> THEN "error"
    ELSE IF \A k \in DOMAIN state.execution_plan :
                IsIn(state.execution_plan[k].agent_name, state.agent_sequence)
         THEN "aggregate"
    ELSE "continue"

CompletionEdges ==
    [continue |-> "route_agents", aggregate |-> "aggregate_results",
     error |-> "generate_response"]

generate_response_update(state, ctx) ==
    IF ctx = None THEN [kind |-> "raise", upd |-> <<>>]
    ELSE [kind |-> "update",
          upd |-> [final_response |-> Some("response"), workflow_status |-> "completed"]]

\* a slot of the server that executes no run
FreeRun ==
    [status |-> "free", kind |-> "", session |-> "", pc |-> "",
     st |-> create_initial_state, ctx |-> None, origin |-> None,
     resumes |-> <<>>, steps |-> 0, entered_route |-> FALSE,
     resumed |-> FALSE, first |-> create_initial_state, given |-> <<>>,
     sent |-> <<>>, loaded |-> 0, action |-> ""]

\* a checkpoint of a thread: the channel values, the node to run next, the
\* resume values of the pending task and whether it waits in interrupt().
\* context is a history field: the context of the /chat request the state
\* comes from (the checkpointer does not store it)
Checkpoint(run, interrupted) ==
    [id |-> 0, values |-> run.st, next |-> run.pc, resumes |-> run.resumes,
     interrupted |-> interrupted, context |-> run.origin]

Active(r) == sup_run[r].status = "active"

\* the rows of a thread in the checkpoints table, oldest first: the id of
\* each row and whether the writes table holds an interrupt for it. saved
\* counts the checkpoint ids issued to the thread (ids are uuid6 values, which
\* grow with the time of the save). The model keeps the content of the
\* newest row only, in newest: the program names no checkpoint_id and so
\* reads no other. deleted is a history field, the value of saved when the
\* thread was last deleted
EmptyThread == [saved |-> 0, rows |-> <<>>, newest |-> None, deleted |-> 0]

\* CheckpointerManager.get_config with a checkpoint_id that names a fixed
\* checkpoint of the thread
get_config_pinned(thread_id) ==
    [thread_id |-> thread_id, checkpoint_ns |-> "", checkpoint_id |-> Some(1)]

\* CheckpointerManager.get_config(thread_id): checkpoint_id is None
get_config(thread_id) ==
    [thread_id |-> thread_id, checkpoint_ns |-> "", checkpoint_id |-> None]

\* the saver's aget_tuple(config): the newest checkpoint of the thread when
\* checkpoint_id is None, else the checkpoint of that id; None if there is
\* none. An older row is read with the content of the input checkpoint
\* of a run, the content of the first row of a thread
aget_tuple(store, config) ==
    LET thread == store[config.thread_id]
        found == {i \in DOMAIN thread.rows :
                     Some(thread.rows[i].id) = config.checkpoint_id}
        row == thread.rows[CHOOSE i \in found : TRUE]
    IN IF config.checkpoint_id = None THEN thread.newest
       ELSE IF found = {} THEN None
       ELSE IF row.id = thread.newest[1].id THEN thread.newest
       ELSE Some([Checkpoint(FreeRun, row.interrupted)
                  EXCEPT !.id = row.id, !.next = "analyze_query"])

\* the saver's aput: a new row with a fresh id; no row is replaced
aput(store, thread_id, checkpoint) ==
    LET id == store[thread_id].saved + 1
    IN [store EXCEPT ![thread_id] =
          [@ EXCEPT !.saved = id,
                    !.rows = Append(@, [id |-> id, interrupted |-> FALSE]),
                    !.newest = Some([checkpoint EXCEPT !.id = id])]]

\* the pending writes of a suspended task (its resume values and the
\* interrupt) are attached to the thread's newest checkpoint; no new
\* checkpoint is written
aput_writes(store, thread_id, checkpoint) ==
    LET rows == store[thread_id].rows
    IN IF rows = <<>> THEN store
       ELSE [store EXCEPT
               ![thread_id].rows[Len(rows)].interrupted = TRUE,
               ![thread_id].newest = Some([checkpoint EXCEPT
                                              !.id = rows[Len(rows)].id])]

\* the context process_chat_stream builds: the defaults of AgentContext
StreamContextApprovesAll == [interrupt_mode |-> "all", parallel_execution |-> TRUE]

StreamContext == [interrupt_mode |-> "critical", parallel_execution |-> TRUE]

\* the messages process_chat_stream sends for one chunk of the stream; in
\* stream mode "updates" a chunk maps the name of the node to its update
StreamMessages(chunk) ==
    <<"update">> \o
    (IF "interrupt_data" \in DOMAIN chunk /\ chunk["interrupt_data"] # None
     THEN <<"interrupt">> ELSE <<>>)

\* what process_chat_stream sends when the stream ends: a suspended run gives
\* one more chunk, {"__interrupt__": ...}, and the stream ends normally
StreamOutcome(outcome) ==
    IF outcome = "END" THEN <<"complete">>
    ELSE IF outcome = "interrupted"
         THEN StreamMessages([n \in {"__interrupt__"} |-> Some("interrupt")])
              \o <<"complete">>
    ELSE <<"error">>

\* the run in slot r did one superstep: its writes are applied and checkpointed
Commit(r, upd, next) ==
    LET chunk == [n \in {sup_run[r].pc} |-> upd]
        run == [sup_run[r] EXCEPT !.st = SupMerge(@, upd), !.pc = next,
                                  !.steps = @ + 1, !.resumes = <<>>,
                                  !.sent = IF sup_run[r].kind = "stream"
                                           THEN @ \o StreamMessages(chunk) ELSE @,
                                  !.entered_route = @ \/ sup_run[r].pc = "route_agents"]
    IN /\ sup_run' = [sup_run EXCEPT ![r] = run]
       /\ sup_store' = aput(sup_store, run.session, Checkpoint(run, FALSE))
       /\ UNCHANGED <<sup_impl, sup_env, sup_last, sup_requests>>

\* the answer of an endpoint to a request on thread session
Response(kind, session, outcome) ==
    [kind |-> kind, session |-> session, outcome |-> outcome,
     resumed |-> FALSE, entered_route |-> FALSE, sent |-> <<>>,
     limit |-> 0, checkpoints |-> <<>>, answer |-> None]

\* ainvoke of slot r returned or raised: the endpoint answers
Halt(r, outcome) ==
    /\ sup_run' = [sup_run EXCEPT ![r] = FreeRun]
    /\ UNCHANGED sup_requests
    /\ sup_last' = Some([Response(sup_run[r].kind, sup_run[r].session, outcome)
                         EXCEPT !.resumed = sup_run[r].resumed,
                                !.entered_route = sup_run[r].entered_route
                                                  \/ sup_run[r].pc = "route_agents",
                                !.sent = IF sup_run[r].kind = "stream"
                                         THEN sup_run[r].sent \o StreamOutcome(outcome)
                                         ELSE <<>>])
    /\ UNCHANGED <<sup_impl, sup_env>>

\* a request is accepted into the first free slot
Accept(r) ==
    /\ ~Active(r)
    /\ r <= sup_env.clients
    /\ \A q \in Runs : q < r => Active(q)
    /\ sup_requests < sup_env.requests
    /\ sup_requests' = sup_requests + 1

\* a node of slot r is scheduled for one more superstep
AtNode(r, node) ==
    /\ Active(r)
    /\ sup_run[r].pc = node
    /\ sup_run[r].steps < RecursionLimit

\* graph.ainvoke(initial_state, config) and graph.astream(initial_state,
\* config): the run starts from the checkpoint the config names and the input
\* is written over it (create_initial_state gives every channel of the model;
\* none of them has a reducer)
StartRun(session_id, kind) ==
    LET tuple == aget_tuple(sup_store, get_config(session_id))
        base == IF tuple = None THEN create_initial_state ELSE tuple[1].values
    IN [FreeRun EXCEPT !.status = "active", !.kind = kind,
                       !.session = session_id, !.pc = "analyze_query",
                       !.st = SupMerge(base, create_initial_state),
                       !.loaded = IF tuple = None THEN 0 ELSE tuple[1].id]

\* POST /chat: a run on thread session_id from
\* create_initial_state, with the context of the request
chat(r, session_id, context) ==
    /\ Accept(r)
    /\ session_id \in sup_env.sessions
    /\ context \in sup_env.contexts
    /\ LET run == [StartRun(session_id, "chat")
                      EXCEPT !.ctx = Some(context), !.origin = Some(context)]
       IN /\ sup_run' = [sup_run EXCEPT ![r] = run]
          /\ sup_store' = aput(sup_store, session_id, Checkpoint(run, FALSE))
    /\ UNCHANGED <<sup_impl, sup_env, sup_last>>
    /\ UNCHANGED non_sup_vars

\* a 'chat' message on the websocket of session_id: the run is streamed and
\* every chunk is sent to the client
process_chat_stream(r, session_id) ==
    /\ Accept(r)
    /\ session_id \in sup_env.sessions
    /\ LET run == [StartRun(session_id, "stream")
                      EXCEPT !.ctx = Some(StreamContext),
                             !.origin = Some(StreamContext)]
       IN /\ sup_run' = [sup_run EXCEPT ![r] = run]
          /\ sup_store' = aput(sup_store, session_id, Checkpoint(run, FALSE))
    /\ UNCHANGED <<sup_impl, sup_env, sup_last>>
    /\ UNCHANGED non_sup_vars

\* POST /interrupt/resume (and 'interrupt_response' over the websocket):
\* Command(resume=value) on the checkpoint the config names; the call passes
\* no context. A value of None supplies no resume value. On a thread
\* without a checkpoint the graph has nothing to resume and no input:
\* ainvoke raises before any node runs and writes no checkpoint
resume_interrupt(r, session_id, action, value) ==
    /\ Accept(r)
    /\ session_id \in sup_env.sessions
    /\ action \in sup_env.actions
    /\ LET tuple == aget_tuple(sup_store, get_config(session_id))
           ckpt == tuple[1]
           resumes == IF ~ckpt.interrupted THEN <<>>
                      ELSE IF value = "null" THEN ckpt.resumes
                      ELSE Append(ckpt.resumes, value)
           run == [FreeRun EXCEPT !.status = "active", !.kind = "resume",
                                  !.session = session_id, !.pc = ckpt.next,
                                  !.st = ckpt.values, !.ctx = None,
                                  !.origin = ckpt.context,
                                  !.resumes = resumes,
                                  !.resumed = ckpt.interrupted /\ value # "null",
                                  !.first = ckpt.values, !.given = resumes,
                                  !.action = action,
                                  !.loaded = ckpt.id]
       IN IF tuple = None
          THEN /\ sup_last' = Some(Response("resume", session_id, "raised"))
               /\ UNCHANGED sup_run
          ELSE /\ sup_run' = [sup_run EXCEPT ![r] = run]
               /\ UNCHANGED sup_last
    /\ UNCHANGED <<sup_impl, sup_env, sup_store>>
    /\ UNCHANGED non_sup_vars

\* analyze_query: the LLM names the required agents (a reply that is not JSON
\* gives ["search"])
analyze_query(r) ==
    /\ AtNode(r, "analyze_query")
    /\ sup_run[r].ctx # None
    /\ \E required_agents \in sup_env.queries :
          Commit(r, [query_analysis |-> Some(required_agents),
                     workflow_status |-> "analyzing"], "create_plan")
    /\ UNCHANGED non_sup_vars

\* a node that reads runtime.context without one, or whose LLM call fails,
\* raises out of ainvoke
node_raises(r) ==
    /\ \E node \in {"analyze_query", "generate_response"} : AtNode(r, node)
    /\ Halt(r, IF sup_run[r].ctx = None THEN "raised" ELSE "llm_error")
    /\ UNCHANGED sup_store
    /\ UNCHANGED non_sup_vars

create_plan_node(r) ==
    /\ AtNode(r, "create_plan")
    /\ LET run == sup_run[r]
           res == create_plan(sup_impl, run.st, run.ctx, run.resumes)
       IN CASE res.kind = "update" -> Commit(r, res.upd, "route_agents")
            [] res.kind = "raise" -> Halt(r, "raised") /\ UNCHANGED sup_store
            [] res.kind = "suspend" ->
                 /\ Halt(r, "interrupted")
                 /\ sup_store' = aput_writes(sup_store, run.session,
                                              Checkpoint(run, TRUE))
    /\ UNCHANGED non_sup_vars

route_agents_node(r) ==
    /\ AtNode(r, "route_agents")
    /\ LET run == sup_run[r]
           res == route_agents(sup_impl, run.st, run.ctx)
       IN IF res.kind = "raise"
          THEN Halt(r, "raised") /\ UNCHANGED sup_store
          ELSE Commit(r, res.upd, CompletionEdges[check_completion(SupMerge(run.st, res.upd))])
    /\ UNCHANGED non_sup_vars

\* aggregate_results writes metadata only
aggregate_results(r) ==
    /\ AtNode(r, "aggregate_results")
    /\ Commit(r, <<>>, "generate_response")
    /\ UNCHANGED non_sup_vars

generate_response_node(r) ==
    /\ AtNode(r, "generate_response")
    /\ LET res == generate_response_update(sup_run[r].st, sup_run[r].ctx)
       IN /\ res.kind = "update"
          /\ Commit(r, res.upd, "END")
    /\ UNCHANGED non_sup_vars

\* the run has no node left: ainvoke returns the state
ainvoke_returns(r) ==
    /\ Active(r)
    /\ sup_run[r].pc = "END"
    /\ Halt(r, "END")
    /\ UNCHANGED sup_store
    /\ UNCHANGED non_sup_vars

\* a node is scheduled beyond the recursion limit of the run
GraphRecursionError(r) ==
    /\ Active(r)
    /\ sup_run[r].pc # "END"
    /\ sup_run[r].steps >= RecursionLimit
    /\ Halt(r, "recursion_limit")
    /\ UNCHANGED sup_store
    /\ UNCHANGED non_sup_vars

\* a request that runs no graph is served at once
Serve ==
    /\ sup_requests < sup_env.requests
    /\ sup_requests' = sup_requests + 1

DefaultLimit == 10

Limits == {1, DefaultLimit}

\* the saver's alist(config, limit=limit): the checkpoints of the thread,
\* newest first, at most limit of them
alist(store, thread_id, limit) ==
    LET rows == store[thread_id].rows
    IN [i \in 1..Min(limit, Len(rows)) |-> rows[Len(rows) + 1 - i]]

\* CheckpointerManager.list_checkpoints(thread_id, limit): alist yields
\* CheckpointTuple values, which are named tuples and have no get method, so
\* building the record of the first checkpoint raises AttributeError
list_checkpoints(store, thread_id, limit) ==
    IF alist(store, thread_id, limit) = <<>>
    THEN [raised |-> FALSE, checkpoints |-> <<>>]
    ELSE [raised |-> TRUE, checkpoints |-> <<>>]

\* GET /sessions/{session_id}/checkpoints
get_checkpoints(session_id, limit) ==
    /\ Serve
    /\ session_id \in sup_env.sessions
    /\ LET res == list_checkpoints(sup_store, session_id, limit)
       IN sup_last' = Some([Response("list", session_id,
                                     IF res.raised THEN "raised" ELSE "returned")
                            EXCEPT !.limit = limit,
                                   !.checkpoints = res.checkpoints])
    /\ UNCHANGED <<sup_impl, sup_env, sup_run, sup_store>>
    /\ UNCHANGED non_sup_vars

\* CheckpointerManager.get_thread_state(thread_id): the channel values of the
\* newest checkpoint, {} when the thread has none
get_thread_state(store, thread_id) ==
    LET checkpoint == aget_tuple(store, [thread_id |-> thread_id,
                                         checkpoint_ns |-> "",
                                         checkpoint_id |-> None])
    IN IF checkpoint = None THEN EmptyDict ELSE checkpoint[1].values

\* DELETE FROM checkpoints without the WHERE clause
delete_thread_every_thread(store, thread_id) ==
    [s \in DOMAIN store |->
        [store[s] EXCEPT !.rows = <<>>, !.newest = None,
                         !.deleted = store[s].saved]]

\* CheckpointerManager.delete_thread(thread_id), when the statement succeeds:
\* DELETE FROM checkpoints WHERE thread_id = ?
delete_thread(store, thread_id) ==
    [store EXCEPT ![thread_id] =
        [@ EXCEPT !.rows = <<>>, !.newest = None,
                  !.deleted = store[thread_id].saved]]

\* the try block of delete_session: it returns the body of the answer or
\* raises HTTPException(status_code=404, detail="Session not found")
delete_session_try(success) ==
    IF success
    THEN [raises |-> None, returns |-> Some("deleted")]
    ELSE [raises |-> Some([class |-> "HTTPException", status_code |-> 404,
                           detail |-> "Session not found"]),
          returns |-> None]

\* `except Exception as e` of delete_session: HTTPException derives from
\* Exception, so the clause catches whatever the try block raises and raises
\* HTTPException(status_code=500, detail=str(e))
delete_session_answer(success) ==
    LET body == delete_session_try(success)
    IN IF body.raises # None
       THEN [success |-> success, status_code |-> 500,
             text |-> <<"str", body.raises[1].detail>>]
       ELSE [success |-> success, status_code |-> 200,
             text |-> <<body.returns[1]>>]

\* DELETE /sessions/{session_id}: delete_thread returns False, and the
\* endpoint fails, when the database raises (the file is locked or gone)
delete_session(session_id, success) ==
    /\ Serve
    /\ session_id \in sup_env.sessions
    /\ sup_store' = IF success THEN delete_thread(sup_store, session_id)
                    ELSE sup_store
    /\ sup_last' = Some([Response("delete", session_id,
                                  IF success THEN "deleted" ELSE "raised")
                            EXCEPT !.answer = Some(delete_session_answer(success))])
    /\ UNCHANGED <<sup_impl, sup_env, sup_run>>
    /\ UNCHANGED non_sup_vars

SupIdle ==
    /\ sup_impl = "guide"
    /\ sup_env = [clients |-> 1, sessions |-> Sessions, requests |-> MaxRequests,
                  contexts |-> Contexts, queries |-> RequiredAgentLists,
                  actions |-> ResumeActions]
    /\ sup_run = [r \in Runs |-> FreeRun]
    /\ sup_store = [s \in Sessions |-> EmptyThread]
    /\ sup_last = None
    /\ sup_requests = 0

\* one client at a time, on one session
SupInit ==
    /\ sup_impl \in {"guide", "modular"}
    /\ sup_env = [clients |-> 1, sessions |-> {"s1"}, requests |-> MaxRequests,
                  contexts |-> Contexts, queries |-> RequiredAgentLists,
                  actions |-> ResumeActions]
    /\ sup_run = [r \in Runs |-> FreeRun]
    /\ sup_store = [s \in Sessions |-> EmptyThread]
    /\ sup_last = None
    /\ sup_requests = 0

\* as many clients as the server has slots, all on one session
SupInitConcurrent ==
    /\ sup_impl \in {"guide", "modular"}
    /\ sup_env = [clients |-> Cardinality(Runs), sessions |-> {"s1"},
                  requests |-> MaxConcurrentRequests,
                  contexts |-> {[interrupt_mode |-> "all", parallel_execution |-> FALSE],
                                [interrupt_mode |-> "none", parallel_execution |-> FALSE]},
                  queries |-> {<<"search">>, <<"analysis", "document">>},
                  actions |-> {"approve"}]
    /\ sup_run = [r \in Runs |-> FreeRun]
    /\ sup_store = [s \in Sessions |-> EmptyThread]
    /\ sup_last = None
    /\ sup_requests = 0

\* one client at a time, on every session; a /chat run suspends for
\* approval, a streamed run ends or loops up to the recursion limit
SupInitStore ==
    /\ sup_impl = "modular"
    /\ sup_env = [clients |-> 1, sessions |-> Sessions, requests |-> MaxStoreRequests,
                  contexts |-> {[interrupt_mode |-> "all", parallel_execution |-> FALSE]},
                  queries |-> {<<"search">>, <<"analysis", "document">>},
                  actions |-> {"approve"}]
    /\ sup_run = [r \in Runs |-> FreeRun]
    /\ sup_store = [s \in Sessions |-> EmptyThread]
    /\ sup_last = None
    /\ sup_requests = 0

SupNext ==
    \/ \E r \in Runs, s \in Sessions, c \in Contexts : chat(r, s, c)
    \/ \E r \in Runs, s \in Sessions : process_chat_stream(r, s)
    \/ \E r \in Runs, s \in Sessions, a \in ResumeActions, v \in ResumeValues :
          resume_interrupt(r, s, a, v)
    \/ \E r \in Runs : analyze_query(r)
    \/ \E r \in Runs : node_raises(r)
    \/ \E r \in Runs : create_plan_node(r)
    \/ \E r \in Runs : route_agents_node(r)
    \/ \E r \in Runs : aggregate_results(r)
    \/ \E r \in Runs : generate_response_node(r)
    \/ \E r \in Runs : ainvoke_returns(r)
    \/ \E r \in Runs : GraphRecursionError(r)
    \/ \E s \in Sessions, limit \in Limits : get_checkpoints(s, limit)
    \/ \E s \in Sessions, success \in BOOLEAN : delete_session(s, success)

----------------------------------------------------------------------------
(* Part D: the pure functions of backend/agents/state.py, applied to inputs *)
(* drawn from bounded sets.                                                *)

Phases == {"analyzing", "planning", "executing", "completed"}

PhaseQueryAnalyzerStates ==
    {None, Some([clarification_needed |-> TRUE]), Some([clarification_needed |-> FALSE])}

PhasePlanningStates ==
    {None, Some([execution_plan |-> <<>>]),
     Some([execution_plan |-> <<[agent |-> "DataAnalysisAgent"]>>])}

PhaseExecutionStates ==
    {None} \cup
    {Some([need_replan |-> n, execution_status |-> e]) :
        n \in BOOLEAN, e \in {"running", "completed", "failed"}}

PhaseStates ==
    {[GlobalSessionState EXCEPT !.current_phase = p,
                                !.query_analyzer_state = qa,
                                !.planning_state = pl,
                                !.execution_manager_state = em] :
        p \in Phases, qa \in PhaseQueryAnalyzerStates,
        pl \in PhasePlanningStates, em \in PhaseExecutionStates}

PhIdle ==
    ph = [state |-> GlobalSessionState, next |-> ""]

PhInit ==
    ph \in {[state |-> st, next |-> ""] : st \in PhaseStates}

next_phase ==
    /\ ph.next = ""
    /\ ph' = [ph EXCEPT !.next = determine_next_phase(ph.state)]
    /\ UNCHANGED <<rd, aw, md>>
    /\ UNCHANGED non_pure_vars

PhNext ==
    \/ next_phase

\* the channels of GlobalSessionState that have a reducer other than
\* errors and warnings
ReducedChannelStates ==
    {[iteration_count |-> c, total_tokens_used |-> c * 10, db_queries_executed |-> c,
      api_calls_made |-> d, conversation_history |-> h, execution_steps |-> h,
      audit_trail |-> h] :
        c \in {0, 2}, d \in {EmptyDict, [openai |-> Num(1)]}, h \in {<<>>, <<"e0">>}}

\* partial updates a node returns
PartialUpdates ==
    {[iteration_count |-> 1],
     [iteration_count |-> 0],
     [total_tokens_used |-> 10, api_calls_made |-> [openai |-> Num(1)]],
     [db_queries_executed |-> 1, api_calls_made |-> [tavily |-> Num(1)]],
     [conversation_history |-> <<"m1">>],
     [execution_steps |-> <<"s1">>, audit_trail |-> <<"a1">>],
     [audit_trail |-> <<>>]}

RdIdle ==
    rd = [state |-> [iteration_count |-> 0], update |-> [iteration_count |-> 0],
          merged |-> 0, once |-> [iteration_count |-> 0]]

RdInit ==
    rd \in {[state |-> st, update |-> u, merged |-> 0, once |-> st] :
               st \in ReducedChannelStates, u \in PartialUpdates}

\* the update is merged into the channels: by the node's first execution, then
\* by its retry
merge_update ==
    /\ rd.merged < 2
    /\ LET st == Merge(rd.state, rd.update)
       IN rd' = [rd EXCEPT !.state = st, !.merged = @ + 1,
                           !.once = IF rd.merged = 0 THEN st ELSE @]
    /\ UNCHANGED <<ph, aw, md>>
    /\ UNCHANGED non_pure_vars

RdNext ==
    \/ merge_update

\* entries one update may hold
MaxUpdate == 3

\* entries appended beyond the cap of a field
MaxExtra == 4

AppendBoundedFields == {"conversation_history", "execution_steps", "audit_trail"}

LimitOf(field) ==
    CASE field = "conversation_history" -> ConversationHistoryLimit
      [] field = "execution_steps" -> ExecutionStepsLimit
      [] field = "audit_trail" -> AuditTrailLimit

\* the update a node returns for the field: a list of new entries, one entry
\* that is not a list, or None.  Entries are numbered in the order they are
\* appended.
FieldUpdates(total) ==
    {[kind |-> "list", entries |-> [i \in 1..n |-> total + i]] : n \in 0..MaxUpdate}
    \cup {[kind |-> "item", entries |-> <<total + 1>>],
          [kind |-> "none", entries |-> <<>>]}

\* `update = [update] if update is not None else []` for an update that is not
\* a list
as_list(update) ==
    IF update.kind = "list" THEN update.entries
    ELSE IF update.kind = "item" THEN <<update.entries[1]>>
    ELSE <<>>

AwIdle ==
    aw = [field |-> "", value |-> <<>>, appended |-> <<>>]

AwInit ==
    aw \in {[field |-> f, value |-> <<>>, appended |-> <<>>] : f \in AppendBoundedFields}

append_update ==
    /\ aw.field \in AppendBoundedFields
    /\ Len(aw.appended) < LimitOf(aw.field) + MaxExtra
    /\ \E update \in FieldUpdates(Len(aw.appended)) :
          aw' = [aw EXCEPT !.value = Reduce(aw.field, @, as_list(update)),
                           !.appended = @ \o update.entries]
    /\ UNCHANGED <<ph, rd, md>>
    /\ UNCHANGED non_pure_vars

AwNext ==
    \/ append_update

DictKeys == {"openai", "tavily"}

DictValues == {Num(1), Num(2), Other("s")}

\* the dicts over DictKeys; the empty one also stands for an argument of None,
\* which merge_dicts replaces by {}
Dicts == UNION {[keys -> DictValues] : keys \in SUBSET DictKeys}

\* the objects of a call: the two arguments and the dict the call returns,
\* which is the copy made by current.copy()
merge_dicts_call(heap, current, update) ==
    [heap EXCEPT !["result"] = Some(merge_dicts(heap[current][1], heap[update][1]))]

MdIdle ==
    md = [heap |-> [o \in {"current", "update", "result"} |-> None], called |-> FALSE,
          current |-> EmptyDict, update |-> EmptyDict]

MdInit ==
    md \in {[heap |-> [o \in {"current", "update", "result"} |->
                          IF o = "current" THEN Some(c)
                          ELSE IF o = "update" THEN Some(u) ELSE None],
              called |-> FALSE, current |-> c, update |-> u] :
               c \in Dicts, u \in Dicts}

call_merge_dicts ==
    /\ md.heap["current"] # None
    /\ ~md.called
    /\ md' = [md EXCEPT !.heap = merge_dicts_call(md.heap, "current", "update"),
                        !.called = TRUE]
    /\ UNCHANGED <<ph, rd, aw>>
    /\ UNCHANGED non_pure_vars

MdNext ==
    \/ call_merge_dicts

PureIdle ==
    /\ PhIdle
    /\ RdIdle
    /\ AwIdle
    /\ MdIdle

----------------------------------------------------------------------------
(* Part E: the routers of the three graphs, evaluated twice on one state *)

RouterNames ==
    {"_route_to_workers", "_check_iteration", "check_completion",
     "should_continue", "needs_validation"}

\* states of the chatbot graph as check_completion finds them
CompletionStates ==
    {[create_initial_state EXCEPT !.errors = e,
                                  !.execution_plan = _build_execution_plan(a),
                                  !.agent_sequence = s] :
        e \in {<<>>, <<"error">>},
        a \in RequiredAgentLists \cup {<<>>},
        s \in {<<>>, <<"search">>, <<"search", "customer">>, <<"analysis">>}}

\* states of the QA graph as its two routers find them
QaRouterStates ==
    {[QaInitialState("q", "u1") EXCEPT !.error = e, !.search_results = n,
                                       !.confidence_score = c] :
        e \in {"", "error"}, n \in {0, 2}, c \in LlmConfidences}

RouterInputs(router) ==
    CASE router \in {"_route_to_workers", "_check_iteration"} -> RouterStates
      [] router = "check_completion" -> CompletionStates
      [] OTHER -> QaRouterStates

\* evaluations of one router on one state object
MaxEvaluations == 2

\* a router that takes the first pending task off the list it routes on
call_router_pops_task(router, state) ==
    [label |-> CASE router = "_route_to_workers" -> _route_to_workers(state)
                 [] router = "_check_iteration" -> _check_iteration(state)
                 [] router = "check_completion" -> check_completion(state)
                 [] router = "should_continue" -> should_continue(state)
                 [] OTHER -> needs_validation(state),
     state |-> IF /\ router = "_route_to_workers"
                  /\ state.execution_manager_state # None
                  /\ state.execution_manager_state[1].pending_tasks # <<>>
               THEN [state EXCEPT !.execution_manager_state[1].pending_tasks = Tail(@)]
               ELSE state]

\* a call of a router: the label it returns and the state object after the
\* call. The routers read the state with state.get and the items they index;
\* they assign to no key of it and read nothing else
call_router(router, state) ==
    [label |-> CASE router = "_route_to_workers" -> _route_to_workers(state)
                 [] router = "_check_iteration" -> _check_iteration(state)
                 [] router = "check_completion" -> check_completion(state)
                 [] router = "should_continue" -> should_continue(state)
                 [] OTHER -> needs_validation(state),
     state |-> state]

RcIdle ==
    rc = [router |-> "", state |-> GlobalSessionState, arg |-> GlobalSessionState,
          labels |-> <<>>]

RcInit ==
    rc \in {[router |-> r, state |-> st, arg |-> st, labels |-> <<>>] :
               r \in RouterNames, st \in RouterStates \cup CompletionStates
                                                     \cup QaRouterStates}
    /\ rc.state \in RouterInputs(rc.router)

evaluate_router ==
    /\ rc.router # ""
    /\ Len(rc.labels) < MaxEvaluations
    /\ LET call == call_router(rc.router, rc.arg)
       IN rc' = [rc EXCEPT !.arg = call.state, !.labels = Append(@, call.label)]
    /\ UNCHANGED <<pn, sg, cm>>
    /\ UNCHANGED non_ext_vars

RcNext ==
    \/ evaluate_router

\* Planner.create_plan applied to the lists of distinct known agents

SuggestedAgentLists ==
    {agents \in UNION {[1..n -> KnownAgents] : n \in 0..Cardinality(KnownAgents)} :
        \A i, j \in DOMAIN agents : i # j => agents[i] # agents[j]}

PlIdle ==
    pn = [suggested_agents |-> <<>>, planning_state |-> None]

PlInit ==
    pn \in {[suggested_agents |-> agents, planning_state |-> None] :
               agents \in SuggestedAgentLists}

call_create_plan ==
    /\ pn.planning_state = None
    /\ pn' = [pn EXCEPT !.planning_state =
                  Some(Planner_create_plan([suggested_agents |-> pn.suggested_agents]))]
    /\ UNCHANGED <<rc, sg, cm>>
    /\ UNCHANGED non_ext_vars

PlNext ==
    \/ call_create_plan

----------------------------------------------------------------------------
(* Part F: the graph of create_supervisor_graph (agents/supervisor.py) *)

\* the agent nodes of the graph
SgAgents ==
    {"query_analyzer", "planner", "data_analysis", "info_retrieval",
     "doc_generation", "compliance", "storage"}

\* action_mapping of _parse_supervisor_response, in the order of the dict
action_mapping ==
    << <<"query_analyzer", "query_analyzer">>, <<"analyze", "query_analyzer">>,
       <<"planner", "planner">>, <<"plan", "planner">>,
       <<"data", "data_analysis">>, <<"sql", "data_analysis">>,
       <<"search", "info_retrieval">>, <<"retrieve", "info_retrieval">>,
       <<"document", "doc_generation">>, <<"generate", "doc_generation">>,
       <<"compliance", "compliance">>, <<"validate", "compliance">>,
       <<"store", "storage">>, <<"save", "storage">> >>

\* the words a reply of the LLM is searched for, and two it is not
ReplyWords ==
    {action_mapping[i][1] : i \in DOMAIN action_mapping} \cup {"end", "finish"}

\* the lower-cased content of a reply, as the set of the words it holds
ReplyContents ==
    {{}} \cup {{w} : w \in ReplyWords}
         \cup {{"end", w} : w \in ReplyWords} \cup {{"save", "plan"}}

SgPhases == {"analyzing", "planning", "executing"}

RECURSIVE FirstKeyword(_, _)
\* for keyword, action in action_mapping.items(): if keyword in content
FirstKeyword(content, i) ==
    IF i > Len(action_mapping) THEN None
    ELSE IF action_mapping[i][1] \in content THEN Some(action_mapping[i][2])
    ELSE FirstKeyword(content, i + 1)

\* SupervisorAgent._parse_supervisor_response
_parse_supervisor_response(content, state) ==
    LET hit == FirstKeyword(content, 1)
    IN IF hit # None THEN hit[1]
       ELSE IF state.current_phase = "analyzing" THEN "query_analyzer"
       ELSE IF state.current_phase = "planning" THEN "planner"
       ELSE "data_analysis"

\* the path map of the conditional edges from 'supervisor'
SupervisorEdges == [a \in SgAgents \cup {"END"} |-> a]

SgIdle ==
    sg = [status |-> "idle", pc |-> "", steps |-> 0, current_phase |-> "",
          current_agent |-> ""]

\* START -> supervisor, on a state in one of the phases the prompt knows
SgInit ==
    sg \in {[status |-> "running", pc |-> "supervisor", steps |-> 0,
             current_phase |-> phase, current_agent |-> ""] : phase \in SgPhases}

SgAtNode ==
    /\ sg.status = "running"
    /\ sg.pc # "END"
    /\ sg.steps < RecursionLimit

\* supervisor_node and the conditional edge lambda x: x["current_agent"]
supervisor_node(content) ==
    /\ SgAtNode
    /\ sg.pc = "supervisor"
    /\ LET next_action == _parse_supervisor_response(content, sg)
       IN sg' = [sg EXCEPT !.current_agent = next_action,
                           !.pc = SupervisorEdges[next_action],
                           !.steps = @ + 1]
    /\ UNCHANGED <<rc, pn, cm>>
    /\ UNCHANGED non_ext_vars

\* self.llm.ainvoke raises: the run ends with the exception
supervisor_raises ==
    /\ SgAtNode
    /\ sg.pc = "supervisor"
    /\ sg' = [sg EXCEPT !.status = "raised"]
    /\ UNCHANGED <<rc, pn, cm>>
    /\ UNCHANGED non_ext_vars

\* an agent node returns its update, which may move the phase, and the
\* edge leads back to 'supervisor'; or the node raises
agent_node(phase, raises) ==
    /\ SgAtNode
    /\ sg.pc \in SgAgents
    /\ sg' = IF raises THEN [sg EXCEPT !.status = "raised"]
             ELSE [sg EXCEPT !.pc = "supervisor", !.current_phase = phase,
                             !.steps = @ + 1]
    /\ UNCHANGED <<rc, pn, cm>>
    /\ UNCHANGED non_ext_vars

\* a node is scheduled beyond the recursion limit of the run
SgRecursionError ==
    /\ sg.status = "running"
    /\ sg.pc # "END"
    /\ sg.steps >= RecursionLimit
    /\ sg' = [sg EXCEPT !.status = "recursion_limit"]
    /\ UNCHANGED <<rc, pn, cm>>
    /\ UNCHANGED non_ext_vars

SgNext ==
    \/ \E content \in ReplyContents : supervisor_node(content)
    \/ supervisor_raises
    \/ \E phase \in SgPhases, raises \in BOOLEAN : agent_node(phase, raises)
    \/ SgRecursionError

----------------------------------------------------------------------------
(* Part G: the websockets of the chatbot (services/chatbot/main.py) *)

MaxSockets == 3

\* the websockets clients open during the life of the application
Sockets == 1..MaxSockets

\* before any client connects: ConnectionManager.__init__
CmInit ==
    cm = [socket |-> [w \in Sockets |-> [state |-> "new", session_id |-> ""]],
          active_connections |-> [s \in Sessions |-> None],
          delivered |-> None]

CmIdle == CmInit

\* websocket_endpoint awaits manager.connect, which awaits websocket.accept()
accept(websocket, session_id) ==
    /\ cm.socket[websocket].state = "new"
    /\ cm' = [cm EXCEPT !.socket[websocket] =
                            [state |-> "accepted", session_id |-> session_id]]
    /\ UNCHANGED <<rc, pn, sg>>
    /\ UNCHANGED non_ext_vars

\* ConnectionManager.connect after the accept:
\* self.active_connections[session_id] = websocket
connect(websocket) ==
    /\ cm.socket[websocket].state = "accepted"
    /\ cm' = [cm EXCEPT !.socket[websocket].state = "connected",
                        !.active_connections[cm.socket[websocket].session_id] =
                              Some(websocket)]
    /\ UNCHANGED <<rc, pn, sg>>
    /\ UNCHANGED non_ext_vars

\* ConnectionManager.disconnect(session_id)
disconnect(active_connections, session_id) ==
    IF active_connections[session_id] # None
    THEN [active_connections EXCEPT ![session_id] = None]
    ELSE active_connections

\* receive_json raises WebSocketDisconnect, or the handling of a message
\* raises: websocket_endpoint calls manager.disconnect(session_id) and ends
websocket_closes(websocket) ==
    /\ cm.socket[websocket].state = "connected"
    /\ cm' = [cm EXCEPT !.socket[websocket].state = "closed",
                        !.active_connections =
                              disconnect(@, cm.socket[websocket].session_id)]
    /\ UNCHANGED <<rc, pn, sg>>
    /\ UNCHANGED non_ext_vars

\* ConnectionManager.send_json(session_id, data): the websocket that
\* receives data, if any
send_json(session_id) ==
    /\ cm' = [cm EXCEPT !.delivered =
                  Some([session_id |-> session_id,
                        websocket |-> cm.active_connections[session_id]])]
    /\ UNCHANGED <<rc, pn, sg>>
    /\ UNCHANGED non_ext_vars

CmNext ==
    \/ \E websocket \in Sockets, session_id \in Sessions : accept(websocket, session_id)
    \/ \E websocket \in Sockets : connect(websocket)
    \/ \E websocket \in Sockets : websocket_closes(websocket)
    \/ \E session_id \in Sessions : send_json(session_id)

ExtIdle ==
    /\ RcIdle
    /\ PlIdle
    /\ SgIdle
    /\ CmIdle

----------------------------------------------------------------------------
(* Specifications *)

InitWF == WfInit /\ RtIdle /\ QaInit /\ SupIdle /\ PureIdle /\ ExtIdle

SpecWF == InitWF /\ [][WfNext]_vars

InitRouter == WfInit /\ RtInit /\ QaInit /\ SupIdle /\ PureIdle /\ ExtIdle

SpecRouter == InitRouter /\ [][RtNext]_vars

InitQA == WfInit /\ RtIdle /\ QaInit /\ SupIdle /\ PureIdle /\ ExtIdle

SpecQA == InitQA /\ [][QaNext]_vars

InitSup == WfInit /\ RtIdle /\ QaInit /\ SupInit /\ PureIdle /\ ExtIdle

SpecSup == InitSup /\ [][SupNext]_vars

InitPhase == WfInit /\ RtIdle /\ QaInit /\ SupIdle /\ PhInit /\ RdIdle /\ AwIdle /\ MdIdle /\ ExtIdle

SpecPhase == InitPhase /\ [][PhNext]_vars

InitRetry == WfInit /\ RtIdle /\ QaInit /\ SupIdle /\ PhIdle /\ RdInit /\ AwIdle /\ MdIdle /\ ExtIdle

SpecRetry == InitRetry /\ [][RdNext]_vars

InitAppend == WfInit /\ RtIdle /\ QaInit /\ SupIdle /\ PhIdle /\ RdIdle /\ AwInit /\ MdIdle /\ ExtIdle

SpecAppend == InitAppend /\ [][AwNext]_vars

InitMergeDicts ==
    WfInit /\ RtIdle /\ QaInit /\ SupIdle /\ PhIdle /\ RdIdle /\ AwIdle /\ MdInit /\ ExtIdle

SpecMergeDicts == InitMergeDicts /\ [][MdNext]_vars

InitStore == WfInit /\ RtIdle /\ QaInit /\ SupInitStore /\ PureIdle /\ ExtIdle

SpecStore == InitStore /\ [][SupNext]_vars

InitSupConcurrent == WfInit /\ RtIdle /\ QaInit /\ SupInitConcurrent /\ PureIdle /\ ExtIdle

SpecSupConcurrent == InitSupConcurrent /\ [][SupNext]_vars

InitRouting ==
    WfInit /\ RtIdle /\ QaInit /\ SupIdle /\ PureIdle /\ RcInit /\ PlIdle /\ SgIdle
    /\ CmIdle

InitPlanner ==
    WfInit /\ RtIdle /\ QaInit /\ SupIdle /\ PureIdle /\ RcIdle /\ PlInit /\ SgIdle
    /\ CmIdle

SpecPlanner == InitPlanner /\ [][PlNext]_vars

InitSupervisorGraph ==
    WfInit /\ RtIdle /\ QaInit /\ SupIdle /\ PureIdle /\ RcIdle /\ PlIdle /\ SgInit
    /\ CmIdle

\* the scheduler runs a node whenever one is scheduled
SpecSupervisorGraph ==
    InitSupervisorGraph /\ [][SgNext]_vars /\ WF_vars(SgNext)

InitConnections ==
    WfInit /\ RtIdle /\ QaInit /\ SupIdle /\ PureIdle /\ RcIdle /\ PlIdle /\ SgIdle
    /\ CmInit

SpecConnections == InitConnections /\ [][CmNext]_vars

SpecRouting == InitRouting /\ [][RcNext]_vars

----------------------------------------------------------------------------
(* Claims about the six-step workflow graph *)

\* C1: every label a router of a conditional edge returns, for any session
\* state, is a key of the label map declared for that edge.
C1_RouterLabelsDeclared ==
    /\ rt.execution # "" => rt.execution \in DOMAIN ExecutionEdges
    /\ rt.iteration # "" => rt.iteration \in DOMAIN IterationEdges

\* C2: over all merges into a session's state, by the nodes of a run and by
\* further runs on the same session, iteration_count never decreases and never
\* exceeds the maximum number of iterations.
C2_IterationMonotoneAndCapped ==
    /\ [](\A s \in Sessions :
            wf_ckpt[s] # None => wf_ckpt[s][1].iteration_count <= DefaultMaxIterations)
    /\ [][\A s \in Sessions :
            (wf_ckpt[s] # None /\ wf_ckpt'[s] # None)
                => wf_ckpt'[s][1].iteration_count >= wf_ckpt[s][1].iteration_count]_vars

\* C3: a run that has halted has halted at END, and the edge
\* iteration -> planning is taken at most max_iterations times in a run.
C3_RunHaltsAtEnd ==
    /\ wf_pc \in {"END", "raised"} => wf_pc = "END"
    /\ wf_loops <= DefaultMaxIterations

\* C5: when a node raises, the failure becomes an entry of the errors list
\* and execute() returns a state instead of propagating the exception.
C5_NodeFailureBecomesErrorEntry ==
    wf_err = "node_exception" => (wf_pc # "raised" /\ wf_st.errors # <<>>)

\* C10: in every reachable session state current_phase is one of analyzing,
\* planning, executing, completed, and so is every result of determine_next_phase.
C10_PhaseInDeclaredSet ==
    wf_runs > 0 =>
        /\ wf_st.current_phase \in Phases
        /\ determine_next_phase(wf_st) \in Phases
        /\ \A s \in Sessions :
              wf_ckpt[s] # None => wf_ckpt[s][1].current_phase \in Phases

----------------------------------------------------------------------------
(* Claims about the QA graph *)

\* C7: when a node of the QA graph failed, run_agent returns a result with
\* success = False and a non-empty error.
C7_NodeFailureReported ==
    (qa_result # None /\ qa_failed # {}) =>
        (qa_result[1].success = FALSE /\ qa_result[1].error # "")

----------------------------------------------------------------------------
(* Claims about the chatbot supervisor graph *)

\* the four fields of a final state the round trip is compared on
FinalFields(state) ==
    <<state.execution_plan, state.agent_sequence, state.workflow_status,
      state.final_response>>

\* the route_agents / check_completion loop run to its end on one state
RECURSIVE SyncRoute(_, _, _, _)
SyncRoute(impl, state, ctx, fuel) ==
    LET res == route_agents(impl, state, ctx)
        routed == SupMerge(state, res.upd)
    IN IF fuel = 0 \/ res.kind = "raise" THEN state
       ELSE IF check_completion(routed) = "continue"
            THEN SyncRoute(impl, routed, ctx, fuel - 1)
       ELSE SupMerge(routed, generate_response_update(routed, ctx).upd)

\* the run from create_plan in which interrupt() returns the values of
\* `resumes` at once, under the context of the request
SyncRun(impl, state, ctx, resumes) ==
    LET res == create_plan(impl, state, ctx, resumes)
    IN IF res.kind # "update" THEN state
       ELSE SyncRoute(impl, SupMerge(state, res.upd), ctx, RecursionLimit)

\* C4: a run suspended in plan creation and resumed with a value V ends in
\* the same final state (execution_plan, agent_sequence, workflow_status,
\* final_response) as the run in which the approving node received V at once.
C4_ResumeEqualsSynchronousRun ==
    [][\A r \in Runs :
          (/\ Active(r)
           /\ sup_run[r].kind = "resume"
           /\ sup_run[r].resumed
           /\ sup_run'[r].status = "free"
           /\ sup_last'[1].outcome \notin {"llm_error", "interrupted"})
          => FinalFields(aget_tuple(sup_store', get_config(sup_run[r].session))[1].values)
               = FinalFields(SyncRun(sup_impl, sup_run[r].first, sup_run[r].origin,
                                     sup_run[r].given))]_vars

\* C6: at most one run per session is in progress at any time, so the merges
\* and checkpoint writes of two runs of one session never interleave.
C6_OneRunPerSession ==
    \A r1 \in Runs, r2 \in Runs :
        (r1 # r2 /\ Active(r1) /\ Active(r2))
        => sup_run[r1].session # sup_run[r2].session

\* the step named by a dependency has been executed
StepExecuted(plan, step_id, executed) ==
    \E j \in DOMAIN plan : plan[j].step_id = step_id /\ IsIn(plan[j].agent_name, executed)

\* C8: route_agents adds an agent to agent_sequence only when every dependency
\* of its step was executed before, for the next step and for its parallel
\* siblings alike.
C8_AgentsAddedAfterDependencies ==
    [][\A r \in Runs :
          (/\ Active(r)
           /\ sup_run[r].pc = "route_agents"
           /\ sup_run'[r].status = "active")
          => LET plan == sup_run[r].st.execution_plan
                 before == sup_run[r].st.agent_sequence
                 after == sup_run'[r].st.agent_sequence
             IN \A i \in (Len(before) + 1)..Len(after) :
                   \A k \in DOMAIN plan :
                      plan[k].agent_name = after[i]
                      => \A d \in DOMAIN plan[k].dependencies :
                            StepExecuted(plan, plan[k].dependencies[d], before)]_vars

\* C9: the self-loop of route_agents takes 'continue' only finitely often: no
\* run that entered route_agents is ended by the recursion limit instead of
\* leaving through 'aggregate' or 'error' to generate_response and END.
C9_RouteLoopLeaves ==
    (sup_last # None /\ sup_last[1].entered_route)
    => sup_last[1].outcome # "recursion_limit"

\* C12: merging the return value of intent_analysis or planning changes each
\* accumulating field only by the node's own contribution: at most one more
\* audit-trail entry, the same errors and warnings, the same counters.
C12_MergeAddsOnlyOwnContribution ==
    [][(wf_pc \in {"intent_analysis", "planning"} /\ wf_pc' \notin {wf_pc, "raised"})
       => /\ Len(wf_st'.audit_trail) <= Len(wf_st.audit_trail) + 1
          /\ wf_st'.errors = wf_st.errors
          /\ wf_st'.warnings = wf_st.warnings
          /\ \A c \in SumFields : wf_st'[c] = wf_st[c]]_vars

\* C16: once a session state exists, its session_id, user_id and company_id
\* never change, by a node's merge or by a later run on the same session.
C16_IdentityNeverChanges ==
    [][\A s \in Sessions :
          wf_ckpt[s] # None
          => /\ wf_ckpt'[s] # None
             /\ wf_ckpt'[s][1].session_id = wf_ckpt[s][1].session_id
             /\ wf_ckpt'[s][1].user_id = wf_ckpt[s][1].user_id
             /\ wf_ckpt'[s][1].company_id = wf_ckpt[s][1].company_id]_vars

MarkedSteps(state, context) ==
    LET required_agents == IF state.query_analysis = None THEN <<"search">>
                           ELSE state.query_analysis[1]
        plan == _build_execution_plan(required_agents)
    IN {k \in DOMAIN plan : should_interrupt(context, plan[k].action)}

\* C23: plan creation honours the interrupt mode of the context: it never
\* suspends under 'none', and under 'all' and 'critical' it asks for approval
\* exactly when should_interrupt marks a step of the plan, so that a run
\* that has given no approval yet suspends exactly then.
C23_ApprovalFollowsInterruptMode ==
    [][\A r \in Runs :
          (/\ AtNode(r, "create_plan")
           /\ sup_run[r].ctx # None
           /\ sup_run[r].resumes = <<>>
           /\ sup_run'[r] # sup_run[r])
          => ((/\ ~Active(r)'
               /\ sup_last' # None
               /\ sup_last'[1].outcome = "interrupted")
              <=> MarkedSteps(sup_run[r].st, sup_run[r].ctx[1]) # {})]_vars

\* the run of slot r resumes a suspended plan creation with a declining value
Declines(r) ==
    /\ Active(r)
    /\ sup_run[r].kind = "resume"
    /\ sup_run[r].resumed
    /\ \E i \in DOMAIN sup_run[r].given : ~Truthy(sup_run[r].given[i])

\* C24: when the user declines an approval request of plan creation, the
\* run ends with workflow_status 'interrupted' and the reason 'User declined
\* action', with no agent added to agent_sequence and no final_response.
C24_DeclineEndsRunInterrupted ==
    [][\A r \in Runs :
          (Declines(r) /\ ~Active(r)')
          => LET final == sup_store'[sup_run[r].session].newest[1].values
             IN /\ sup_last'[1].outcome = "END"
                /\ final.workflow_status = "interrupted"
                /\ final.interrupt_data = Some("User declined action")
                /\ final.agent_sequence = sup_run[r].first.agent_sequence
                /\ final.final_response = None]_vars

\* the approval decision a resuming run hands to the suspended interrupt()
Decision(run) ==
    IF ~run.resumed THEN "none"
    ELSE IF Truthy(run.given[Len(run.given)]) THEN "approved"
    ELSE "declined"

\* C25: the decision applied on resume follows the action of the request:
\* an approval resumes the suspended plan as approved and a rejection as
\* declined, whatever the value field of the request holds.
C25_DecisionFollowsAction ==
    [][\A r \in Runs :
          (/\ ~Active(r)
           /\ Active(r)'
           /\ sup_run'[r].kind = "resume"
           /\ sup_store[sup_run'[r].session].newest[1].interrupted)
          => /\ sup_run'[r].action = "approve" => Decision(sup_run'[r]) = "approved"
             /\ sup_run'[r].action = "reject" => Decision(sup_run'[r]) = "declined"]_vars

\* C27: in each routing step the agents appended to agent_sequence are the
\* agents a Send was created for: the agent of the current step is dispatched
\* together with its parallel siblings.
C27_RecordedAgentsAreDispatched ==
    [][\A r \in Runs :
          (/\ AtNode(r, "route_agents")
           /\ Active(r)'
           /\ sup_run'[r].steps = sup_run[r].steps + 1)
          => LET before == sup_run[r].st.agent_sequence
                 after == sup_run'[r].st.agent_sequence
                 appended == SubSeq(after, Len(before) + 1, Len(after))
                 sends == route_agents(sup_impl, sup_run[r].st, sup_run[r].ctx).sends
             IN SeqToSet(appended) = SeqToSet(sends)]_vars

----------------------------------------------------------------------------
(* Claims about the checkpoint store of the chatbot *)

\* the id of the newest row of a thread, 0 when the thread has none
NewestId(store, thread_id) ==
    LET rows == store[thread_id].rows
    IN IF rows = <<>> THEN 0 ELSE rows[Len(rows)].id

\* slot r takes up a run or a resume in this step
Starts(r) == ~Active(r) /\ Active(r)'

\* C18: every run and every resume is started with a config whose
\* checkpoint_id is unset, and so starts from the newest checkpoint of the
\* thread of its session, never from an older one, whatever was written to
\* the thread since a suspension.
C18_StartsFromNewestCheckpoint ==
    [][\A r \in Runs :
          Starts(r) =>
             /\ get_config(sup_run'[r].session).checkpoint_id = None
             /\ sup_run'[r].loaded = NewestId(sup_store, sup_run'[r].session)]_vars

\* a resume is in progress on a thread that suspended and then got further
\* checkpoints: the resume started from a checkpoint newer than the suspended one
C18_Witness ==
    \E r \in Runs :
       /\ Active(r)
       /\ sup_run[r].kind = "resume"
       /\ \E i \in DOMAIN sup_store[sup_run[r].session].rows :
             LET row == sup_store[sup_run[r].session].rows[i]
             IN row.interrupted /\ row.id < sup_run[r].loaded

\* GET /sessions/{session_id}/checkpoints is answered in this step
Lists ==
    /\ sup_requests' = sup_requests + 1
    /\ sup_run' = sup_run
    /\ sup_last' # None
    /\ sup_last'[1].kind = "list"

\* C19: list_checkpoints(thread_id, limit) returns at most limit records, all
\* of thread_id, newest first; the checkpoint ids of a thread are pairwise
\* distinct and grow in the order of the saves, and a save replaces no
\* earlier checkpoint.
C19_ListsNewestFirst ==
    /\ [][Lists =>
            LET answer == sup_last'[1]
                rows == sup_store[answer.session].rows
                n == Min(answer.limit, Len(rows))
            IN /\ answer.outcome = "returned"
               /\ Len(answer.checkpoints) = n
               /\ \A i \in 1..n :
                     /\ answer.checkpoints[i].id = rows[Len(rows) + 1 - i].id
                     /\ answer.checkpoints[i].thread_id = answer.session]_vars
    /\ [](\A s \in Sessions :
             LET rows == sup_store[s].rows
             IN \A i, j \in DOMAIN rows : i < j => rows[i].id < rows[j].id)
    /\ [][\A s \in Sessions :
            sup_store'[s].saved > sup_store[s].saved =>
               /\ Len(sup_store'[s].rows) = Len(sup_store[s].rows) + 1
               /\ \A i \in DOMAIN sup_store[s].rows :
                     sup_store'[s].rows[i].id = sup_store[s].rows[i].id]_vars

\* DELETE /sessions/s is answered in this step and delete_thread returned True
Deletes(s) ==
    /\ sup_requests' = sup_requests + 1
    /\ sup_run' = sup_run
    /\ sup_last' # None
    /\ sup_last'[1].kind = "delete"
    /\ sup_last'[1].session = s
    /\ sup_last'[1].outcome = "deleted"

----------------------------------------------------------------------------
(* Claims about the functions of state.py *)

PhaseRank(p) ==
    CASE p = "analyzing" -> 1 [] p = "planning" -> 2 [] p = "executing" -> 3
      [] p = "completed" -> 4 [] OTHER -> 0

\* C11: determine_next_phase moves forward in the order analyzing < planning <
\* executing < completed or stays; the only backward transition is executing to
\* planning when execution_manager_state.need_replan is true.
C11_PhaseForwardOrReplan ==
    ph.next # "" =>
        \/ /\ ph.next \in Phases
           /\ PhaseRank(ph.next) >= PhaseRank(ph.state.current_phase)
        \/ /\ ph.state.current_phase = "executing"
           /\ ph.next = "planning"
           /\ ph.state.execution_manager_state # None
           /\ ph.state.execution_manager_state[1].need_replan

\* C13: merging the same partial update twice (a retried node) leaves the
\* state equal to merging it once, for the Sum fields and the append-bounded
\* fields.
C13_RetriedUpdateIsIdempotent ==
    rd.merged = 2 => rd.state = rd.once

\* C14: a field reduced by append_with_limit(N) holds, after any sequence of
\* merges, exactly the last min(N, total) of all entries appended to it, in
\* their original order; it never holds more than N entries.
C14_AppendBoundedKeepsNewest ==
    aw.field \in AppendBoundedFields =>
        LET total == Len(aw.appended)
            kept == Len(aw.value)
        IN /\ kept = Min(LimitOf(aw.field), total)
           /\ \A i \in 1..kept : aw.value[i] = aw.appended[total - kept + i]

\* the cap of a field was exceeded and its oldest entries were dropped
C14_Witness ==
    /\ aw.field = "audit_trail"
    /\ Len(aw.appended) > AuditTrailLimit
    /\ Len(aw.value) = AuditTrailLimit
    /\ aw.value[1] > 1

\* C15: merge_dicts returns a map over the union of both key sets; a key of
\* both with numeric values maps to their sum, any other key of update to
\* update's value, a key of current alone keeps its value; neither argument
\* is modified.
C15_MergeDictsUnionAndSum ==
    md.called =>
        LET result == md.heap["result"][1]
            current == md.current
            update == md.update
        IN /\ DOMAIN result = DOMAIN current \cup DOMAIN update
           /\ \A key \in DOMAIN result :
                 IF key \in DOMAIN current /\ key \in DOMAIN update
                    /\ IsNum(current[key]) /\ IsNum(update[key])
                 THEN result[key] = Num(current[key][2] + update[key][2])
                 ELSE IF key \in DOMAIN update THEN result[key] = update[key]
                 ELSE result[key] = current[key]
           /\ md.heap["current"] = Some(current)
           /\ md.heap["update"] = Some(update)

\* a call in which one key is summed, one overwritten by a value of another
\* type
C15_Witness ==
    /\ md.called
    /\ md.current = [openai |-> Num(1), tavily |-> Num(2)]
    /\ md.update = [openai |-> Num(2), tavily |-> Other("s")]
    /\ md.heap["result"][1] = [openai |-> Num(3), tavily |-> Other("s")]

\* C28: DELETE /sessions/{session_id} answers status 'deleted' when
\* delete_thread reports success and HTTP 404 'Session not found' when it
\* reports failure.
C28_DeleteAnswersByOutcome ==
    (sup_last # None /\ sup_last[1].kind = "delete")
    => LET answer == sup_last[1].answer[1]
       IN IF answer.success
          THEN answer.status_code = 200 /\ answer.text = <<"deleted">>
          ELSE answer.status_code = 404 /\ answer.text = <<"Session not found">>

----------------------------------------------------------------------------
(* Claims about the routers *)

----------------------------------------------------------------------------
(* Claims about Planner.create_plan *)

\* the steps of the plan that hold the agent
StepsOf(plan, agent) == {k \in DOMAIN plan : IsIn(agent, plan[k].agents)}

\* C22: for every set of known agents the plan orders the agents by their
\* dependencies: each agent is in a strictly later step than every agent it
\* depends on, and every agent is in exactly one step.
C22_PlanFollowsDependencies ==
    pn.planning_state # None =>
       LET plan == pn.planning_state[1].execution_plan
           agents == SeqToSet(pn.suggested_agents)
       IN /\ \A a \in agents : Cardinality(StepsOf(plan, a)) = 1
          /\ \A k \in DOMAIN plan : SeqToSet(plan[k].agents) \subseteq agents
          /\ \A a \in agents :
                \A d \in SeqToSet(base_dependencies(a)) \cap agents :
                   \A ka \in StepsOf(plan, a), kd \in StepsOf(plan, d) : kd < ka

\* C29: _check_iteration returns 'retry' exactly when iteration_state is
\* present, iteration_count is below the maximum and need_retry is true or
\* quality_score is below 0.8; in every other state it returns 'complete',
\* so the iteration cap takes precedence over need_retry and a low score.
C29_RetryExactlyBelowCap ==
    rt.iteration # "" =>
        LET it == rt.state.iteration_state
            retry == /\ it # None
                     /\ rt.state.iteration_count < DefaultMaxIterations
                     /\ (it[1].need_retry \/ it[1].quality_score < quality_threshold)
        IN rt.iteration = IF retry THEN "retry" ELSE "complete"

\* the router answered 'complete' at the cap although a retry was asked for
\* and the score is low
C29_Witness ==
    /\ rt.iteration = "complete"
    /\ rt.state.iteration_state # None
    /\ rt.state.iteration_state[1].need_retry
    /\ rt.state.iteration_state[1].quality_score < quality_threshold
    /\ rt.state.iteration_count >= DefaultMaxIterations

----------------------------------------------------------------------------
(* Claims about the graph of create_supervisor_graph *)

\* C26: every run of the graph of create_supervisor_graph eventually routes
\* from the 'supervisor' node to END.
C26_SupervisorEventuallySelectsEnd ==
    <>(sg.pc = "END")

----------------------------------------------------------------------------
(* Claims about the websockets *)

\* C30: while a websocket connected for session s is open,
\* active_connections[s] refers to an open websocket, and a send_json(s)
\* made meanwhile reached one: the disconnect of another client of the
\* session does not remove the entry.
C30_OpenSocketKeepsItsEntry ==
    \A w \in Sockets :
        cm.socket[w].state = "connected" =>
            LET entry == cm.active_connections[cm.socket[w].session_id]
            IN /\ entry # None
               /\ cm.socket[entry[1]].state = "connected"

====
